---- MODULE Spec2Model ----
(***************************************************************************)
(* Sprite asset pipeline (scripts/*.py): sheet assembler, normalizer,      *)
(* recolorizer and the batch loops over the sprite directory.              *)
(*                                                                         *)
(* Images are rasters of RGBA pixels <<r, g, b, a>>, each channel 0..255.  *)
(* A raster is [w, h, bw, bh, tile]: its size (w, h), and its pixels given *)
(* as the NEAREST sampling of a stored raster of size (bw, bh) whose pixel *)
(* (x, y) is tile[(x % 2) + 2 * (y % 2)].  A stored file has bw = w and    *)
(* bh = h.                                                                 *)
(***************************************************************************)
EXTENDS Integers, Sequences, FiniteSets, TLC

VARIABLES
  files,    \* sheet assembler: frame files of the sprite directory, key -> raster
  sheets,   \* sheet assembler: sheet files written, <<kind, subject>> -> canvas
  report,   \* sheet assembler: the status line printed per subject
  nIn,      \* normalizer: the cutout returned by remove() and the target canvas
  nOut,     \* normalizer: what process_sprite returned and saved
  rcTarget, \* recolorizer: the name of the target config
  rcPixels, \* recolorizer: the pixel before the first pass and after each pass
  rcEval,   \* recolorizer: what the last pass evaluated: [skipped, hueIn, satAbove]
  rcMemo,   \* recolorizer: pixel -> the result recolor_pixel has had for it
  disk,     \* batch runs: the files of the sprite directory, name -> content
  backup,   \* batch runs: the files of originals_backup, name -> content
  pristine, \* batch runs: name -> the content the file had before any script wrote it
  last,     \* batch runs: the last run: script, items reached, done, caught, raised
  runs,     \* batch runs: the number of runs so far
  pxIn,     \* pixelizer: the image given to pixelate (size, mode) and the factor
  pxOut     \* pixelizer: the sizes of the images pixelate made and returned

sheetVars == <<files, sheets, report>>

normVars == <<nIn, nOut>>

recolorVars == <<rcTarget, rcPixels, rcEval, rcMemo>>

batchVars == <<disk, backup, pristine, last, runs>>

pixelVars == <<pxIn, pxOut>>

vars ==
  <<files, sheets, report, nIn, nOut, rcTarget, rcPixels, rcEval, rcMemo,
    disk, backup, pristine, last, runs, pxIn, pxOut>>

----------------------------------------------------------------------------
(* Bounds of the model *)

\* at most this many frame files of a subject are absent
MaxMissing == 1

\* at most this many runs of the scripts, one after another
MaxRuns == 2

\* an image given to pixelate is at most this many pixels on a side
MaxSide == 96

\* a cutout is at most MaxCutLong pixels on one side and MaxCutShort on the other
MaxCutLong == 200

MaxCutShort == 3

\* the channel values of the recolorizer's input pixels: ChanCount + 1 levels
\* spread over 0..255, and the values of ExtraLevels
ChanCount == 17

\* recolor_image is applied to one image at most this many times in a row
MaxPasses == 2

\* the stored size of a frame file that does not have its kind's usual size
OddSize == <<2, 4>>

----------------------------------------------------------------------------
(* Program constants *)

DIRECTIONS == <<"front", "left", "right", "back">>

CHAR_COLORS == <<"blue", "red", "green", "purple", "orange", "teal", "pink", "yellow">>

ANIMALS == <<"chicken", "cow", "pig", "sheep", "cat", "dog">>

FRAMES_PER_DIR == 3

CharFramesPerDir == 3

AnimalFramesPerDir == 2

RECOLOR_TARGET_NAMES == <<"red", "orange">>

CHAR_SIZE == <<48, 64>>

ANIMAL_SIZE == <<48, 48>>

RebuildFrameW == 48

RebuildFrameH == 64

Range(s) == {s[i] : i \in 1..Len(s)}

\* the recolorizer has evaluated nothing
\* an absent file
Absent == << >>

NoRun == [script |-> "none", raised |-> FALSE, seen |-> {}, done |-> {}, caught |-> {}]

BatchIdle ==
  /\ disk = << >> /\ backup = << >> /\ pristine = << >>
  /\ last = NoRun /\ runs = 0

\* pixelate has not been called
NoImage ==
  [mode |-> "none", small_rgb |-> << >>, small_a |-> << >>,
   pixel_rgb |-> << >>, pixel_a |-> << >>, size |-> << >>]

PixelIdle ==
  /\ pxIn = [size |-> <<0, 0>>, mode |-> "none", factor |-> <<1, 1>>]
  /\ pxOut = NoImage

NoEval == [skipped |-> TRUE, hueIn |-> FALSE, satAbove |-> FALSE]

----------------------------------------------------------------------------
(* Rasters *)

Transparent == <<0, 0, 0, 0>>

\* Image.NEAREST: output pixel x samples input pixel floor((x + 0.5) * in / out)
NearestIndex(x, inLen, outLen) == ((2 * x + 1) * inLen) \div (2 * outLen)

GetPixel(img, x, y) ==
  LET bx == NearestIndex(x, img.bw, img.w)
      by == NearestIndex(y, img.bh, img.h)
  IN  img.tile[(bx % 2) + 2 * (by % 2)]

\* mutant: the frame is pasted at its stored size
ResizeKeepsSize(img, nw, nh) == img

\* frame.resize((fw, fh), Image.NEAREST) of a stored raster
Resize(img, nw, nh) == [img EXCEPT !.w = nw, !.h = nh]

\* PIL DIV255: (a + 128 + ((a + 128) >> 8)) >> 8
Div255(a) == LET t == a + 128 IN ((t \div 256) + t) \div 256

\* PIL BLEND(mask, in1, in2) on one channel
BlendChannel(mask, below, above) == Div255(below * (255 - mask) + above * mask)

\* paste(im, box, mask=im): all four bytes of the pixel are blended by im's alpha
BlendPixel(below, above) ==
  [i \in 1..4 |-> BlendChannel(above[4], below[i], above[i])]

\* paste(im, box): the pixel is copied
CopyPixel(below, above) == above

\* Image.new("RGBA", (w, h), (0, 0, 0, 0))
NewCanvas(cw, ch) == [w |-> cw, h |-> ch, layers |-> <<>>]

\* canvas.paste(img, (ox, oy)[, img])
Paste(canvas, img, ox, oy, masked) ==
  [canvas EXCEPT !.layers =
     Append(@, [img |-> img, ox |-> ox, oy |-> oy, masked |-> masked])]

Covers(l, X, Y) ==
  /\ X >= l.ox /\ X < l.ox + l.img.w
  /\ Y >= l.oy /\ Y < l.oy + l.img.h

RECURSIVE LayerPixel(_, _, _, _)
LayerPixel(ls, i, X, Y) ==
  IF i = 0 THEN Transparent
  ELSE IF Covers(ls[i], X, Y)
       THEN LET above == GetPixel(ls[i].img, X - ls[i].ox, Y - ls[i].oy)
                below == LayerPixel(ls, i - 1, X, Y)
            IN  IF ls[i].masked THEN BlendPixel(below, above)
                                ELSE CopyPixel(below, above)
       ELSE LayerPixel(ls, i - 1, X, Y)

\* the pixel of a canvas at (X, Y)
CanvasPixel(canvas, X, Y) == LayerPixel(canvas.layers, Len(canvas.layers), X, Y)

----------------------------------------------------------------------------
(* Frame store *)

\* SPRITES_DIR / f"{kind}_{subject}_{direction}_{frame}.png"
FramePath(kind, subject, direction, frame) == <<kind, subject, direction, frame>>

Exists(path) == path \in DOMAIN files

\* the direction names that occur in frame file names
DirectionNames == {"front", "left", "right", "back"}

DirectionCode(direction) ==
  CASE direction = "front" -> 0
    [] direction = "left"  -> 1
    [] direction = "right" -> 2
    [] OTHER               -> 3

\* the pixels of the frame file (direction, frame) in the model's frame
\* store: an opaque pixel only this frame has, a half-transparent pixel, a
\* coloured pixel of alpha 0 and a second opaque pixel only this frame has
FrameTile(direction, frame) ==
  [i \in 0..3 |->
     CASE i = 0 -> <<40 + 50 * DirectionCode(direction), 30 + 70 * frame, 220, 255>>
       [] i = 1 -> <<200, 100 + DirectionCode(direction), 50 + frame, 128>>
       [] i = 2 -> <<90, 60, 30, 0>>
       [] OTHER -> <<10 + frame, 20 * DirectionCode(direction), 7, 255>>]

Stored(size, tile) ==
  [w |-> size[1], h |-> size[2], bw |-> size[1], bh |-> size[2], tile |-> tile]

FramesOf(kind) == IF kind = "char" THEN CharFramesPerDir ELSE AnimalFramesPerDir

UsualSize(kind) == IF kind = "char" THEN CHAR_SIZE ELSE ANIMAL_SIZE

\* the frame file names of one subject
FramePaths(kind, subject) ==
  {FramePath(kind, subject, d, f) : d \in DirectionNames, f \in 0..(FramesOf(kind) - 1)}

\* the frame files of one subject: front_0 of size frontSize, the others of
\* size restSize
SubjectFiles(kind, subject, frontSize, restSize) ==
  [p \in FramePaths(kind, subject) |->
     Stored(IF p[3] = "front" /\ p[4] = 0 THEN frontSize ELSE restSize,
            FrameTile(p[3], p[4]))]

ModelSubjects == {<<"char", "red">>, <<"animal", "cow">>}

AbsentOf(kind, subject) == {p \in FramePaths(kind, subject) : ~Exists(p)}

----------------------------------------------------------------------------
(* Sheet assembler *)

\* build_sprite_sheets.py: the loops over direction rows and frame columns
\* of one subject; the result is the canvas and the missing-frame count
BuildSheetLayers(kind, subject, fw, fh) ==
  LET RECURSIVE Fill(_, _)
      Fill(acc, n) ==
        IF n = Len(DIRECTIONS) * FramesOf(kind) THEN acc
        ELSE LET row == n \div FramesOf(kind)
                 col == n % FramesOf(kind)
                 p   == FramePath(kind, subject, DIRECTIONS[row + 1], col)
             IN  IF Exists(p)
                 THEN LET frame == IF <<files[p].w, files[p].h>> # <<fw, fh>>
                                   THEN Resize(files[p], fw, fh)
                                   ELSE files[p]
                      IN  Fill([acc EXCEPT !.sheet =
                                  Paste(@, frame, col * fw, row * fh, TRUE)], n + 1)
                 ELSE Fill([acc EXCEPT !.missing = @ + 1], n + 1)
  IN  Fill([sheet |-> NewCanvas(fw * FramesOf(kind), fh * Len(DIRECTIONS)),
            missing |-> 0], 0)

\* one subject of build_character_sheets / build_animal_sheets is skipped
\* when its front_0 frame is absent
BuildSkips(kind, subject) == ~Exists(FramePath(kind, subject, "front", 0))

\* one subject that is not skipped: the frame size is read from front_0
BuildOne(kind, subject) ==
  LET sample == files[FramePath(kind, subject, "front", 0)]
  IN  BuildSheetLayers(kind, subject, sample.w, sample.h)

BuildReport(kind, subject, by) ==
  IF BuildSkips(kind, subject)
  THEN [by |-> by, status |-> "SKIP"]
  ELSE LET built == BuildOne(kind, subject)
       IN  [by |-> by, status |-> "DONE",
            w |-> built.sheet.w, h |-> built.sheet.h, missing |-> built.missing]

\* the sheet files and status lines after the loop over `names`
build_sheets(kind, names, by, sh, rep) ==
  LET written == {<<kind, n>> : n \in {m \in Range(names) : ~BuildSkips(kind, m)}}
      visited == {<<kind, n>> : n \in Range(names)}
  IN  [sheets |-> [k \in DOMAIN sh \cup written |->
                     IF k \in written THEN BuildOne(kind, k[2]).sheet ELSE sh[k]],
       report |-> [k \in DOMAIN rep \cup visited |->
                     IF k \in visited THEN BuildReport(kind, k[2], by) ELSE rep[k]]]

build_character_sheets(sh, rep) ==
  build_sheets("char", CHAR_COLORS, "build_character_sheets", sh, rep)

build_animal_sheets(sh, rep) ==
  build_sheets("animal", ANIMALS, "build_animal_sheets", sh, rep)

\* mutant: left and right rows exchanged
DirectionOrderLeftRightSwapped == <<"front", "right", "left", "back">>

\* recolor_sprites.py rebuild_sheets: the row order of its own
direction_order == <<"front", "left", "right", "back">>

RebuildSheetLayers(color_name) ==
  LET cols == FRAMES_PER_DIR
      rows == Len(DIRECTIONS)
      RECURSIVE Fill(_, _)
      Fill(acc, n) ==
        IF n = rows * cols THEN acc
        ELSE LET row_idx == n \div cols
                 frame   == n % cols
                 p == FramePath("char", color_name, direction_order[row_idx + 1], frame)
             IN  IF ~Exists(p)
                 THEN Fill([acc EXCEPT !.missing = @ + 1], n + 1)
                 ELSE LET frame_img ==
                            IF <<files[p].w, files[p].h>> # <<RebuildFrameW, RebuildFrameH>>
                            THEN Resize(files[p], RebuildFrameW, RebuildFrameH)
                            ELSE files[p]
                      IN  Fill([acc EXCEPT !.sheet =
                                  Paste(@, frame_img, frame * RebuildFrameW,
                                        row_idx * RebuildFrameH, FALSE)], n + 1)
  IN  Fill([sheet |-> NewCanvas(cols * RebuildFrameW, rows * RebuildFrameH),
            missing |-> 0], 0)

rebuild_sheets(sh, rep) ==
  LET visited == {<<"char", n>> : n \in Range(RECOLOR_TARGET_NAMES)}
  IN  [sheets |-> [k \in DOMAIN sh \cup visited |->
                     IF k \in visited THEN RebuildSheetLayers(k[2]).sheet ELSE sh[k]],
       report |-> [k \in DOMAIN rep \cup visited |->
                     IF k \in visited
                     THEN LET built == RebuildSheetLayers(k[2])
                          IN  [by |-> "rebuild_sheets", status |-> "OK",
                               w |-> built.sheet.w, h |-> built.sheet.h,
                               missing |-> built.missing]
                     ELSE rep[k]]]

----------------------------------------------------------------------------
(* Normalizer *)

\* process_all_sprites.py and process_building_sprites.py BUILDING_SIZES
BUILDING_SIZES ==
  [building_well     |-> <<96, 96>>,
   building_barn     |-> <<192, 160>>,
   building_windmill |-> <<160, 192>>,
   building_market   |-> <<192, 128>>,
   building_clock    |-> <<96, 192>>,
   building_townhall |-> <<192, 160>>,
   building_statue   |-> <<96, 128>>]

BuildingTargets == {BUILDING_SIZES[n] : n \in DOMAIN BUILDING_SIZES}

\* A cutout is [w, h, box]: its size and the bounding box <<l, t, r, b>> of
\* its non-transparent pixels; None, the box of a cutout whose every pixel is
\* fully transparent, is the empty tuple.
None == << >>

getbbox(img) == img.box

\* img.crop(bbox)
crop(img, box) ==
  [w |-> box[3] - box[1], h |-> box[4] - box[2],
   box |-> <<0, 0, box[3] - box[1], box[4] - box[2]>>]

\* bbox = img.getbbox(); if bbox: img = img.crop(bbox)
CropToContent(img) ==
  IF getbbox(img) # None THEN crop(img, getbbox(img)) ELSE img

RECURSIVE GCD(_, _)
GCD(a, b) == IF b = 0 THEN a ELSE GCD(b, a % b)

RECURSIVE IsPowerOfTwo(_)
IsPowerOfTwo(n) == n = 1 \/ (n > 1 /\ n % 2 = 0 /\ IsPowerOfTwo(n \div 2))

\* ratio = min(target_w / img.width, target_h / img.height), as the fraction
\* <<numerator, denominator>> the float division rounds
FitRatio(tw, th, w, h) == IF tw * h <= th * w THEN <<tw, w>> ELSE <<th, h>>

\* int(x * ratio) in double arithmetic.  The quotient num / den is exact
\* when its reduced denominator is a power of two, and then so is the
\* product.  Otherwise the quotient is rounded, and a product that is an
\* integer e in exact arithmetic comes out as e or just below e, so int()
\* gives e or e - 1; a product that is no integer is further from the next
\* integer than the rounding error.
IntOfProduct(x, ratio) ==
  LET num == ratio[1]
      den == ratio[2]
      e   == (x * num) \div den
  IN  IF (x * num) % den # 0 THEN {e}
      ELSE IF IsPowerOfTwo(den \div GCD(num, den)) THEN {e}
      ELSE {e, e - 1}

Max(a, b) == IF a >= b THEN a ELSE b

\* the transparent canvas with the scaled content pasted bottom-anchored
\* and horizontally centred, saved over the source file
Compose(ret, tw, th, new_w, new_h) ==
  LET offset_x == (tw - new_w) \div 2
      offset_y == th - new_h
  IN  [ret |-> ret, canvas |-> <<tw, th>>, new_w |-> new_w, new_h |-> new_h,
       offset_x |-> offset_x, offset_y |-> offset_y, saved |-> TRUE]

Skipped(ret) ==
  [ret |-> ret, canvas |-> None, new_w |-> 0, new_h |-> 0,
   offset_x |-> 0, offset_y |-> 0, saved |-> FALSE]

\* process_all_sprites.py process_sprite, after remove(): the results it
\* can have
process_sprite(cutout, target_w, target_h) ==
  LET img == CropToContent(cutout)
  IN  IF img.w = 0 \/ img.h = 0 THEN {Skipped("False")}
      ELSE LET ratio == FitRatio(target_w, target_h, img.w, img.h)
           IN  {Compose("True", target_w, target_h, Max(1, nw), Max(1, nh)) :
                  nw \in IntOfProduct(img.w, ratio), nh \in IntOfProduct(img.h, ratio)}

\* process_building_sprites.py process_sprite, after remove(): resize()
\* raises ValueError when a side of the new size is 0, and main() catches it
building_process_sprite(cutout, target_w, target_h) ==
  LET img   == CropToContent(cutout)
      ratio == FitRatio(target_w, target_h, img.w, img.h)
  IN  {IF nw < 1 \/ nh < 1
       THEN Skipped("ERROR")
       ELSE Compose("DONE", target_w, target_h, nw, nh) :
         nw \in IntOfProduct(img.w, ratio), nh \in IntOfProduct(img.h, ratio)}

\* no process_sprite call has been made
NormIdle == Skipped("none") @@ [script |-> "none"]

NoInput == [cutout |-> [w |-> 1, h |-> 1, box |-> None], target |-> <<1, 1>>]

\* the sizes of the cutouts of the model
CutSizes ==
  {<<a, b>> : a \in 1..MaxCutLong, b \in 1..MaxCutShort} \cup
  {<<b, a>> : a \in 1..MaxCutLong, b \in 1..MaxCutShort}

\* the cutouts of one size: fully transparent, content everywhere, content
\* everywhere but the first column and the first row
CutoutsOf(size) ==
  {[w |-> size[1], h |-> size[2], box |-> None],
   [w |-> size[1], h |-> size[2], box |-> <<0, 0, size[1], size[2]>>]} \cup
  (IF size[1] > 1 /\ size[2] > 1
   THEN {[w |-> size[1], h |-> size[2], box |-> <<1, 1, size[1], size[2]>>]}
   ELSE {})

NormInit ==
  /\ \E size \in CutSizes :
       \E cutout \in CutoutsOf(size) :
         \E target \in {CHAR_SIZE, ANIMAL_SIZE} \cup BuildingTargets :
           nIn = [cutout |-> cutout, target |-> target]
  /\ nOut = NormIdle
  /\ files = << >> /\ sheets = << >> /\ report = << >>
  /\ rcTarget = "red" /\ rcPixels = << >> /\ rcEval = NoEval /\ rcMemo = << >>
  /\ BatchIdle
  /\ PixelIdle

\* process_all_sprites.py: process_sprite on one file
ProcessAllSprite ==
  /\ nOut.ret = "none"
  /\ \E res \in process_sprite(nIn.cutout, nIn.target[1], nIn.target[2]) :
       nOut' = res @@ [script |-> "process_all_sprites"]
  /\ UNCHANGED nIn
  /\ UNCHANGED sheetVars
  /\ UNCHANGED recolorVars
  /\ UNCHANGED batchVars
  /\ UNCHANGED pixelVars

\* process_building_sprites.py: process_sprite on one building
ProcessBuildingSprite ==
  /\ nOut.ret = "none"
  /\ nIn.target \in BuildingTargets
  /\ \E res \in building_process_sprite(nIn.cutout, nIn.target[1], nIn.target[2]) :
       nOut' = res @@ [script |-> "process_building_sprites"]
  /\ UNCHANGED nIn
  /\ UNCHANGED sheetVars
  /\ UNCHANGED recolorVars
  /\ UNCHANGED batchVars
  /\ UNCHANGED pixelVars

NormNext == ProcessAllSprite \/ ProcessBuildingSprite

SpecNorm == NormInit /\ [][NormNext]_vars

----------------------------------------------------------------------------
(* Recolorizer *)

\* mutant: a source band that holds the target hues
BlueHueMinBelowTargets == 170 - 170

BLUE_HUE_MIN == 170

BLUE_HUE_MAX == 260

\* RECOLOR_TARGETS, the boosts in hundredths
RECOLOR_TARGETS ==
  [red    |-> [target_hue |-> 12, sat_boost |-> 110, val_boost |-> 95],
   orange |-> [target_hue |-> 30, sat_boost |-> 115, val_boost |-> 105]]

\* if a < 10: return r, g, b, a
AlphaSkipBelow == 10

\* s > 0.15, in hundredths
MinSaturation == 15

Max3(a, b, c) == Max(a, Max(b, c))

Min(a, b) == IF a <= b THEN a ELSE b

Min3(a, b, c) == Min(a, Min(b, c))

\* colorsys.rgb_to_hsv: h * 360 as the fraction <<n, d>>, d = maxc - minc > 0
\*   r == maxc: h = bc - gc;  g == maxc: h = 2 + rc - bc;  else h = 4 + gc - rc
\*   h = (h / 6.0) % 1.0
HueDegrees(r, g, b) ==
  LET maxc == Max3(r, g, b)
      minc == Min3(r, g, b)
      d    == maxc - minc
      n    == IF r = maxc THEN g - b
              ELSE IF g = maxc THEN 2 * d + (b - r)
              ELSE 4 * d + (r - g)
  IN  IF d = 0 THEN <<0, 1>>
      ELSE IF n < 0 THEN <<360 * d + 60 * n, d>> ELSE <<60 * n, d>>

\* colorsys.rgb_to_hsv: s as the fraction <<maxc - minc, maxc>>, 0 for grey
Saturation(r, g, b) ==
  LET maxc == Max3(r, g, b)
      minc == Min3(r, g, b)
  IN  IF maxc = minc THEN <<0, 1>> ELSE <<maxc - minc, maxc>>

\* a float comparison x >= c (or x <= c, x > c) of a quantity whose exact
\* value is the fraction x: decided by the exact values unless they are
\* equal, where the rounding of x decides
FloatGeq(x, c) ==
  IF x[1] > c * x[2] THEN {TRUE} ELSE IF x[1] < c * x[2] THEN {FALSE} ELSE BOOLEAN

FloatLeq(x, c) ==
  IF x[1] < c * x[2] THEN {TRUE} ELSE IF x[1] > c * x[2] THEN {FALSE} ELSE BOOLEAN

\* x > cHundredths / 100
FloatGtHundredths(x, cHundredths) ==
  IF 100 * x[1] > cHundredths * x[2] THEN {TRUE}
  ELSE IF 100 * x[1] < cHundredths * x[2] THEN {FALSE} ELSE BOOLEAN

\* int(x * 255) of a float that is the fraction num / den of 255 in exact
\* arithmetic: the floor, or one less when the exact value is a positive
\* integer that the rounded product can fall short of
IntOfChannel(num, den) ==
  LET e == num \div den
  IN  IF num % den # 0 \/ e = 0 THEN {e} ELSE {e, e - 1}

\* the recoloured channels: hsv_to_rgb(new_h, new_s, new_v) with
\* i = int(new_h * 6) = 0, f = new_h * 6, returning (v, t, p),
\*   p = v * (1 - s), t = v * (1 - s * (1 - f)), each times 255 and truncated
Recoloured(r, g, b, cfg) ==
  LET maxc == Max3(r, g, b)
      d    == maxc - Min3(r, g, b)
      \* new_v * 255 = vn / 100, clamped to 255
      vClamped == maxc * cfg.val_boost > 255 * 100
      vn == IF vClamped THEN 255 * 100 ELSE maxc * cfg.val_boost
      \* new_s = sn / sd, clamped to 1; s is 0 for a grey pixel
      sClamped == d * cfg.sat_boost > maxc * 100
      sn == IF sClamped THEN 1 ELSE d * cfg.sat_boost
      sd == IF sClamped \/ d = 0 THEN 1 ELSE maxc * 100
      \* f = target_hue / 60 and 1 - f = (60 - target_hue) / 60
      g1 == GCD(vn, 100 * sd)
      tn == (vn \div g1) * (60 * sd - sn * (60 - cfg.target_hue))
      td == ((100 * sd) \div g1) * 60
      g2 == GCD(tn, td)
      pn == (vn \div g1) * (sd - sn)
      pd == (100 * sd) \div g1
  IN  [nr : IF vClamped THEN {255} ELSE IntOfChannel(vn, 100),
       ng : IntOfChannel(tn \div g2, td \div g2),
       nb : IntOfChannel(pn, pd)]

\* mutant: the two tests joined by "or"
InBlueRangeEither(hueIn, satAbove) == hueIn \/ satAbove

\* if BLUE_HUE_MIN <= hue_deg <= BLUE_HUE_MAX and s > 0.15
InBlueRange(hueIn, satAbove) == hueIn /\ satAbove

\* recolor_pixel: the outcomes it can have, each with what it evaluated
recolor_pixel(px, cfg) ==
  LET r == px[1]
      g == px[2]
      b == px[3]
      a == px[4]
  IN  IF a < AlphaSkipBelow
      THEN {[out |-> px, eval |-> [skipped |-> TRUE, hueIn |-> FALSE, satAbove |-> FALSE]]}
      ELSE LET evals ==
                 {[skipped |-> FALSE, hueIn |-> lo /\ hi, satAbove |-> sat] :
                    lo \in FloatGeq(HueDegrees(r, g, b), BLUE_HUE_MIN),
                    hi \in FloatLeq(HueDegrees(r, g, b), BLUE_HUE_MAX),
                    sat \in FloatGtHundredths(Saturation(r, g, b), MinSaturation)}
           IN  UNION {IF InBlueRange(e.hueIn, e.satAbove)
                      THEN {[out |-> <<c.nr, c.ng, c.nb, a>>, eval |-> e] :
                              c \in Recoloured(r, g, b, cfg)}
                      ELSE {[out |-> px, eval |-> e]} : e \in evals}

\* channel values on and around the edges of the blue range and of the
\* saturation threshold
ExtraLevels == {5, 6, 17, 20, 65, 78}

ChannelLevels == {(k * 255) \div ChanCount : k \in 0..ChanCount} \cup ExtraLevels

AlphaLevels == {0, 9, 10, 128, 255}

RecolorInit ==
  /\ rcTarget \in DOMAIN RECOLOR_TARGETS
  /\ \E r \in ChannelLevels, g \in ChannelLevels, b \in ChannelLevels, a \in AlphaLevels :
       rcPixels = << <<r, g, b, a>> >>
  /\ rcEval = NoEval
  /\ rcMemo = << >>
  /\ nIn = NoInput /\ nOut = NormIdle
  /\ files = << >> /\ sheets = << >> /\ report = << >>
  /\ BatchIdle
  /\ PixelIdle

\* recolor_image on one pixel of the image, with the config of rcTarget.
\* recolor_pixel is a function: a pixel it has been applied to before has the
\* result it had then.
RecolorPass ==
  /\ Len(rcPixels) <= MaxPasses
  /\ LET px == rcPixels[Len(rcPixels)]
     IN  \E res \in IF px \in DOMAIN rcMemo THEN {rcMemo[px]}
                     ELSE recolor_pixel(px, RECOLOR_TARGETS[rcTarget]) :
           /\ rcPixels' = Append(rcPixels, res.out)
           /\ rcEval' = res.eval
           /\ rcMemo' = [q \in DOMAIN rcMemo \cup {px} |-> IF q = px THEN res ELSE rcMemo[q]]
  /\ UNCHANGED rcTarget
  /\ UNCHANGED sheetVars
  /\ UNCHANGED normVars
  /\ UNCHANGED batchVars
  /\ UNCHANGED pixelVars

RecolorNext == RecolorPass

SpecRecolor == RecolorInit /\ [][RecolorNext]_vars

----------------------------------------------------------------------------
(* The sheet assembler's runs *)

SheetInit ==
  /\ \E subj \in ModelSubjects :
       \E frontSize \in {UsualSize(subj[1]), OddSize} :
         \E restSize \in {UsualSize(subj[1]), OddSize} :
           files = SubjectFiles(subj[1], subj[2], frontSize, restSize)
  /\ sheets = << >>
  /\ report = << >>
  /\ nIn = NoInput /\ nOut = NormIdle
  /\ rcTarget = "red" /\ rcPixels = << >> /\ rcEval = NoEval /\ rcMemo = << >>
  /\ BatchIdle
  /\ PixelIdle

\* a frame file is deleted before the scripts run
RemoveFrame(p) ==
  /\ Exists(p)
  /\ report = << >>
  /\ \E subj \in ModelSubjects :
       /\ p[1] = subj[1] /\ p[2] = subj[2]
       /\ Cardinality(AbsentOf(subj[1], subj[2])) < MaxMissing
  /\ files' = [q \in DOMAIN files \ {p} |-> files[q]]
  /\ UNCHANGED <<sheets, report>>
  /\ UNCHANGED normVars
  /\ UNCHANGED recolorVars
  /\ UNCHANGED batchVars
  /\ UNCHANGED pixelVars

\* build_sprite_sheets.py main()
BuildSpriteSheetsMain ==
  /\ report = << >>
  /\ LET a == build_character_sheets(sheets, report)
         b == build_animal_sheets(a.sheets, a.report)
     IN  sheets' = b.sheets /\ report' = b.report
  /\ UNCHANGED files
  /\ UNCHANGED normVars
  /\ UNCHANGED recolorVars
  /\ UNCHANGED batchVars
  /\ UNCHANGED pixelVars

\* recolor_sprites.py main(): its sheet step
RebuildSheets ==
  /\ report = << >>
  /\ LET a == rebuild_sheets(sheets, report)
     IN  sheets' = a.sheets /\ report' = a.report
  /\ UNCHANGED files
  /\ UNCHANGED normVars
  /\ UNCHANGED recolorVars
  /\ UNCHANGED batchVars
  /\ UNCHANGED pixelVars

SheetNext ==
  \/ \E p \in DOMAIN files : RemoveFrame(p)
  \/ BuildSpriteSheetsMain
  \/ RebuildSheets

SpecSheet == SheetInit /\ [][SheetNext]_vars

----------------------------------------------------------------------------
(* Batch runs over the sprite directory *)

\* A file of the sprite directory is named <<kind, subject, frame>>.  Its
\* content is what it held at first ("orig": an image; "tiny": an image of
\* less than 300 bytes; "corrupt": bytes that cannot be decoded) followed by
\* the scripts that have rewritten it since.  An absent file holds << >>.
\* Image.open(path) raises
Corrupt(content) == content[1] = "corrupt"

\* src_path.stat().st_size < 300
TooSmall(content) == content[1] = "tiny"

\* the frame indexes of the model (direction front)
BatchFrames == <<0, 1>>

\* the colours of the model, in the order of CHAR_COLORS
BatchColors == SelectSeq(CHAR_COLORS, LAMBDA c : c \in {"blue", "red", "orange"})

\* the colours of the model, in the order of sorted(glob("char_*_*.png"))
SortedColors == <<"blue", "orange", "red">>

\* the buildings of the model, in the order of BUILDING_SIZES and BUILDING_NAMES
BatchBuildings == <<"building_well", "building_barn">>

\* the animals of the model, in the order of ANIMALS
BatchAnimals == SelectSeq(ANIMALS, LAMBDA a : a = "cow")

CharFile(color, frame) == <<"char", color, frame>>

AnimalFile(animal, frame) == <<"animal", animal, frame>>

BuildingFile(name) == <<"building", name, 0>>

\* the frame files of the subjects, subject by subject and frame by frame
FrameItems(kind, subjects) ==
  [i \in 1..(Len(subjects) * Len(BatchFrames)) |->
     <<kind, subjects[((i - 1) \div Len(BatchFrames)) + 1],
       BatchFrames[((i - 1) % Len(BatchFrames)) + 1]>>]

BuildingItems == [i \in 1..Len(BatchBuildings) |-> BuildingFile(BatchBuildings[i])]

DiskFiles ==
  Range(FrameItems("char", BatchColors)) \cup
  Range(FrameItems("animal", BatchAnimals)) \cup Range(BuildingItems)

\* the state of a run: the two directories, the items the loops have reached,
\* those processed, those whose exception was caught, and whether an
\* exception is in flight
StartOfRun ==
  [disk |-> disk, backup |-> backup, pristine |-> pristine,
   seen |-> {}, done |-> {}, caught |-> {}, raised |-> FALSE]

Raise(st) == [st EXCEPT !.raised = TRUE]

See(st, f) == [st EXCEPT !.seen = @ \cup {f}]

Done(st, f) == [st EXCEPT !.done = @ \cup {f}]

\* except Exception as e: print(...)
Except(st, f) ==
  IF st.raised THEN [st EXCEPT !.raised = FALSE, !.caught = @ \cup {f}] ELSE st

\* img.save(path): the file holds the new content
Save(st, f, content) ==
  [st EXCEPT !.disk[f] = content,
             !.pristine[f] = IF @ = Absent THEN content ELSE @]

\* process_all_sprites.py backup_file; copy2 raises for the files of copyFail
backup_file(st, f, copyFail) ==
  IF st.backup[f] # Absent THEN st
  ELSE IF f \in copyFail THEN Raise(st)
  ELSE [st EXCEPT !.backup[f] = st.disk[f]]

\* process_all_sprites.py process_sprite on the file f: remove() or a later
\* call raises for the files of fail and for bytes that are no image
ProcessSpriteFile(st, f, fail) ==
  IF f \in fail \/ Corrupt(st.disk[f]) THEN Raise(st)
  ELSE Done(Save(st, f, Append(st.disk[f], "norm")), f)

\* process_all_sprites.py process_characters and process_animals: the body
\* of the loop, backup_file before the try
ProcessFilesItem(st, f, env) ==
  IF st.disk[f] = Absent THEN st
  ELSE LET s1 == backup_file(See(st, f), f, env.copyFail)
       IN  IF s1.raised THEN s1
           ELSE Except(ProcessSpriteFile(s1, f, env.fail), f)

\* process_all_sprites.py process_buildings: the body of the loop, the copy
\* from or to the backup before the try
ProcessBuildingsItem(st, f, env) ==
  IF st.disk[f] = Absent THEN st
  ELSE LET s0 == See(st, f)
           s1 == IF s0.backup[f] # Absent
                 THEN IF f \in env.copyFail THEN Raise(s0)
                      ELSE [s0 EXCEPT !.disk[f] = s0.backup[f]]
                 ELSE backup_file(s0, f, env.copyFail)
       IN  IF s1.raised THEN s1
           ELSE Except(ProcessSpriteFile(s1, f, env.fail), f)

\* process_building_sprites.py main: the body of the loop, process_sprite(name)
\* with its own backup inside the try
BuildingSpritesItem(st, f, env) ==
  IF st.disk[f] = Absent THEN See(st, f)
  ELSE LET s0 == See(st, f)
           s1 == IF s0.backup[f] # Absent THEN s0
                 ELSE IF f \in env.copyFail THEN Raise(s0)
                 ELSE [s0 EXCEPT !.backup[f] = s0.disk[f]]
       IN  Except(IF s1.raised THEN s1 ELSE ProcessSpriteFile(s1, f, env.fail), f)

\* pixelate_sprites.py process_characters, process_animals, process_buildings:
\* the body of the loop
PixelateItem(st, f) ==
  IF st.disk[f] = Absent THEN st
  ELSE IF Corrupt(st.disk[f]) THEN Raise(See(st, f))
  ELSE Done(Save(See(st, f), f, Append(st.disk[f], "pixelate")), f)

\* recolor_sprites.py process_color: the body of the loop
ProcessColorItem(st, frame, env) ==
  LET src == CharFile("blue", frame)
      dst == CharFile(env.color_name, frame)
  IN  IF st.disk[src] = Absent THEN st
      ELSE IF TooSmall(st.disk[src]) THEN See(st, src)
      ELSE IF Corrupt(st.disk[src]) THEN Raise(See(st, src))
      ELSE Done(Save(See(st, src), dst, Append(st.disk[src], env.color_name)), src)

\* a sheet builder opens a frame file that exists
OpenFrameItem(st, f) ==
  IF st.disk[f] = Absent THEN st
  ELSE IF Corrupt(st.disk[f]) THEN Raise(See(st, f))
  ELSE Done(See(st, f), f)

\* the body of the loop named loop
LoopBody(loop, st, item, env) ==
  CASE loop = "process_files" -> ProcessFilesItem(st, item, env)
    [] loop = "process_buildings" -> ProcessBuildingsItem(st, item, env)
    [] loop = "process_building_sprites" -> BuildingSpritesItem(st, item, env)
    [] loop = "pixelate" -> PixelateItem(st, item)
    [] loop = "process_color" -> ProcessColorItem(st, item, env)
    [] loop = "open_frames" -> OpenFrameItem(st, item)

\* a for loop from its item i on: it ends when an exception leaves its body
RECURSIVE ForEach(_, _, _, _, _)
ForEach(loop, st, items, i, env) ==
  IF i > Len(items) \/ st.raised THEN st
  ELSE ForEach(loop, LoopBody(loop, st, items[i], env), items, i + 1, env)

process_characters(st, env) ==
  ForEach("process_files", st, FrameItems("char", SortedColors), 1, env)

process_animals(st, env) ==
  ForEach("process_files", st, FrameItems("animal", BatchAnimals), 1, env)

process_buildings(st, env) ==
  ForEach("process_buildings", st, BuildingItems, 1, env)

\* process_all_sprites.py main: a function runs unless an exception is in flight
process_all_sprites_main(st, env) ==
  LET s1 == process_buildings(st, env)
      s2 == IF s1.raised THEN s1 ELSE process_characters(s1, env)
  IN  IF s2.raised THEN s2 ELSE process_animals(s2, env)

\* process_building_sprites.py main
process_building_sprites_main(st, env) ==
  ForEach("process_building_sprites", st, BuildingItems, 1, env)

\* pixelate_sprites.py main
pixelate_sprites_main(st) ==
  LET s1 == ForEach("pixelate", st, FrameItems("char", BatchColors), 1, << >>)
      s2 == IF s1.raised THEN s1
            ELSE ForEach("pixelate", s1, FrameItems("animal", BatchAnimals), 1, << >>)
  IN  IF s2.raised THEN s2 ELSE ForEach("pixelate", s2, BuildingItems, 1, << >>)

\* recolor_sprites.py process_color
process_color(st, color_name) ==
  ForEach("process_color", st, BatchFrames, 1, [color_name |-> color_name])

\* recolor_sprites.py main: process_color for the targets from the i-th on
RECURSIVE ProcessColors(_, _)
ProcessColors(st, i) ==
  IF i > Len(RECOLOR_TARGET_NAMES) \/ st.raised THEN st
  ELSE ProcessColors(process_color(st, RECOLOR_TARGET_NAMES[i]), i + 1)

\* recolor_sprites.py main: process_color per target, then rebuild_sheets
recolor_sprites_main(st) ==
  LET s1 == ProcessColors(st, 1)
  IN  IF s1.raised THEN s1
      ELSE ForEach("open_frames", s1, FrameItems("char", RECOLOR_TARGET_NAMES), 1, << >>)

\* the frame files of the subjects whose front_0 file exists: a subject
\* without it is skipped
WithFront0(st, kind, subjects) ==
  SelectSeq(FrameItems(kind, subjects), LAMBDA f : st.disk[<<kind, f[2], 0>>] # Absent)

\* build_sprite_sheets.py main
build_sprite_sheets_main(st) ==
  LET s1 == ForEach("open_frames", st, WithFront0(st, "char", BatchColors), 1, << >>)
  IN  IF s1.raised THEN s1
      ELSE ForEach("open_frames", s1, WithFront0(s1, "animal", BatchAnimals), 1, << >>)

\* the files on which a step of one run fails: none or one
FailChoices == {{}} \cup {{f} : f \in DiskFiles}

\* the sprite directory before any script has run: the blue frames, the
\* animal and the buildings are there, the red frames may be; at most one
\* file is tiny or cannot be decoded; there is no backup
BatchInit ==
  /\ \E redThere \in BOOLEAN :
       \E odd \in {<<f, k>> : f \in DiskFiles \cup {Absent}, k \in {"tiny", "corrupt"}} :
         disk = [f \in DiskFiles |->
                   IF f[2] = "orange" \/ (f[2] = "red" /\ ~redThere) THEN Absent
                   ELSE IF f = odd[1] THEN <<odd[2]>>
                   ELSE <<"orig">>]
  /\ backup = [f \in DiskFiles |-> Absent]
  /\ pristine = disk
  /\ last = NoRun
  /\ runs = 0
  /\ files = << >> /\ sheets = << >> /\ report = << >>
  /\ nIn = NoInput /\ nOut = NormIdle
  /\ rcTarget = "red" /\ rcPixels = << >> /\ rcEval = NoEval /\ rcMemo = << >>
  /\ PixelIdle

\* a script has run to its end or to the exception that left it
EndOfRun(script, st) ==
  /\ runs < MaxRuns
  /\ runs' = runs + 1
  /\ disk' = st.disk
  /\ backup' = st.backup
  /\ pristine' = st.pristine
  /\ last' = [script |-> script, raised |-> st.raised, seen |-> st.seen,
              done |-> st.done, caught |-> st.caught]
  /\ UNCHANGED sheetVars
  /\ UNCHANGED normVars
  /\ UNCHANGED recolorVars
  /\ UNCHANGED pixelVars

RunProcessAllSprites ==
  \E fail \in FailChoices, copyFail \in FailChoices :
    EndOfRun("process_all_sprites",
             process_all_sprites_main(StartOfRun, [fail |-> fail, copyFail |-> copyFail]))

RunProcessBuildingSprites ==
  \E fail \in FailChoices, copyFail \in FailChoices :
    EndOfRun("process_building_sprites",
             process_building_sprites_main(StartOfRun, [fail |-> fail, copyFail |-> copyFail]))

RunPixelateSprites ==
  EndOfRun("pixelate_sprites", pixelate_sprites_main(StartOfRun))

RunRecolorSprites ==
  EndOfRun("recolor_sprites", recolor_sprites_main(StartOfRun))

RunBuildSpriteSheets ==
  EndOfRun("build_sprite_sheets", build_sprite_sheets_main(StartOfRun))

BatchNext ==
  \/ RunProcessAllSprites
  \/ RunProcessBuildingSprites
  \/ RunPixelateSprites
  \/ RunRecolorSprites
  \/ RunBuildSpriteSheets

SpecBatch == BatchInit /\ [][BatchNext]_vars

----------------------------------------------------------------------------
(* Pixelizer *)

\* PIXEL_FACTOR_CHAR, PIXEL_FACTOR_ANIMAL, PIXEL_FACTOR_BUILDING = 0.5, as
\* the fraction <<numerator, denominator>> the literal denotes
PIXEL_FACTOR == <<1, 2>>

\* A double is [bits, scale]: the binary digits of its significand, the
\* least significant first, and its value is the number the digits spell
\* times 2^-scale.  The significand of a double has MantissaBits digits.
MantissaBits == 53

RECURSIVE Reverse(_)
Reverse(s) == IF s = << >> THEN << >> ELSE Append(Reverse(Tail(s)), Head(s))

\* the number the binary digits spell plus one
RECURSIVE AddOne(_)
AddOne(bits) ==
  IF bits = << >> THEN <<1>>
  ELSE IF Head(bits) = 0 THEN <<1>> \o Tail(bits)
  ELSE <<0>> \o AddOne(Tail(bits))

\* the binary digits of a natural number
RECURSIVE BitsOf(_)
BitsOf(n) == IF n = 0 THEN << >> ELSE <<n % 2>> \o BitsOf(n \div 2)

\* the natural number the binary digits spell
RECURSIVE NatOf(_)
NatOf(bits) == IF bits = << >> THEN 0 ELSE Head(bits) + 2 * NatOf(Tail(bits))

\* the digits of the quotient of rem / den after its first `scale` binary
\* places, the most significant first, until the quotient is exact or the
\* significand is full
RECURSIVE DivideBits(_, _, _, _)
DivideBits(rem, den, digits, scale) ==
  IF rem = 0 \/ Len(digits) = MantissaBits
  THEN [digits |-> digits, rem |-> rem, scale |-> scale]
  ELSE LET q == (2 * rem) \div den
           r == (2 * rem) % den
       IN  DivideBits(r, den, IF digits = << >> /\ q = 0 THEN << >> ELSE Append(digits, q),
                      scale + 1)

\* the double a literal or a division num / den gives, 0 < num <= den:
\* the quotient rounded to the nearest double, a tie to the even one
FloatOfFraction(num, den) ==
  LET start == IF num >= den THEN <<1>> ELSE << >>
      q     == DivideBits(num % den, den, start, 0)
      lsb   == Reverse(q.digits)
      up    == \/ 2 * q.rem > den
               \/ (2 * q.rem = den /\ Head(lsb) = 1)
  IN  [bits |-> IF up THEN AddOne(lsb) ELSE lsb, scale |-> q.scale]

\* the digits of bits times the natural number k
RECURSIVE TimesNat(_, _, _)
TimesNat(bits, k, carry) ==
  IF bits = << >> THEN BitsOf(carry)
  ELSE LET t == k * Head(bits) + carry
       IN  <<t % 2>> \o TimesNat(Tail(bits), k, t \div 2)

\* w * factor in double arithmetic: the exact product rounded to the nearest
\* double, a tie to the even one
FloatTimesNat(x, k) ==
  LET exact == TimesNat(x.bits, k, 0)
      drop  == Len(exact) - MantissaBits
  IN  IF drop <= 0 THEN [bits |-> exact, scale |-> x.scale]
      ELSE LET low    == SubSeq(exact, 1, drop)
               high   == SubSeq(exact, drop + 1, Len(exact))
               sticky == \E i \in 1..(drop - 1) : low[i] = 1
               up     == low[drop] = 1 /\ (sticky \/ Head(high) = 1)
           IN  [bits |-> IF up THEN AddOne(high) ELSE high, scale |-> x.scale - drop]

\* int(x) of a double x >= 0 with scale >= 0: the digits after the binary
\* point are cut
IntOfFloat(x) ==
  IF x.scale >= Len(x.bits) THEN 0
  ELSE NatOf(SubSeq(x.bits, x.scale + 1, Len(x.bits)))

\* mutant: the small size without its floor of one pixel
SmallSideUnclamped(side, factor) ==
  IntOfFloat(FloatTimesNat(FloatOfFraction(factor[1], factor[2]), side))

\* small_w = max(1, int(w * factor))
SmallSide(side, factor) ==
  Max(1, IntOfFloat(FloatTimesNat(FloatOfFraction(factor[1], factor[2]), side)))

\* Image.resize((w, h), Image.NEAREST) on the size of an image: a side
\* below one pixel raises ValueError and there is no image
ResizeTo(size, w, h) == IF w < 1 \/ h < 1 THEN None ELSE <<w, h>>

\* pixelate(img, factor): the sizes of the small image and of the image
\* returned; in mode RGBA the colour channels and the alpha channel are
\* resized one after the other, each to the same two sizes
pixelate(img, factor) ==
  LET w       == img.size[1]
      h       == img.size[2]
      small_w == SmallSide(w, factor)
      small_h == SmallSide(h, factor)
      small   == ResizeTo(img.size, small_w, small_h)
      back    == IF small = None THEN None ELSE ResizeTo(small, w, h)
  IN  IF img.mode = "RGBA"
      THEN [mode |-> "RGBA", small_rgb |-> small, small_a |-> small,
            pixel_rgb |-> back, pixel_a |-> back, size |-> back]
      ELSE [mode |-> img.mode, small_rgb |-> small, small_a |-> None,
            pixel_rgb |-> back, pixel_a |-> None, size |-> back]

\* the factors of the model: the program's 0.5 and other literals in (0, 1]
Factors ==
  {PIXEL_FACTOR, <<1, 1>>, <<1, 4>>, <<3, 4>>, <<1, 10>>, <<3, 10>>, <<7, 10>>,
   <<1, 3>>, <<1, 100>>}

\* the sizes of the model: one side up to MaxSide, the other a sprite side
ImageSizes ==
  {<<a, b>> : a \in 1..MaxSide, b \in {1, CHAR_SIZE[1], CHAR_SIZE[2]}} \cup
  {<<b, a>> : a \in 1..MaxSide, b \in {1, CHAR_SIZE[1], CHAR_SIZE[2]}}

PixelInit ==
  /\ \E size \in ImageSizes, mode \in {"RGBA", "RGB"}, factor \in Factors :
       pxIn = [size |-> size, mode |-> mode, factor |-> factor]
  /\ pxOut = NoImage
  /\ files = << >> /\ sheets = << >> /\ report = << >>
  /\ nIn = NoInput /\ nOut = NormIdle
  /\ rcTarget = "red" /\ rcPixels = << >> /\ rcEval = NoEval /\ rcMemo = << >>
  /\ BatchIdle

\* pixelate on one image
Pixelate ==
  /\ pxOut = NoImage
  /\ pxOut' = pixelate(pxIn, pxIn.factor)
  /\ UNCHANGED pxIn
  /\ UNCHANGED sheetVars
  /\ UNCHANGED normVars
  /\ UNCHANGED recolorVars
  /\ UNCHANGED batchVars

PixelNext == Pixelate

SpecPixel == PixelInit /\ [][PixelNext]_vars

----------------------------------------------------------------------------
(* Normalizer: claims *)

\* C4: for every content size (cw, ch) >= (1, 1) and every target (w, h), in
\* both process_sprite implementations, the scaled size (nw, nh) has
\* 1 <= nw <= w and 1 <= nh <= h, the canvas is exactly (w, h), and the
\* content is pasted at x = floor((w - nw) / 2), y = h - nh, so it lies
\* inside the canvas with its bottom edge on the canvas's bottom edge.
C4_ScaledContentFitsCanvas ==
  (nOut.ret # "none" /\ nIn.cutout.box # None) =>
    LET w == nIn.target[1]
        h == nIn.target[2]
    IN  /\ 1 <= nOut.new_w /\ nOut.new_w <= w
        /\ 1 <= nOut.new_h /\ nOut.new_h <= h
        /\ nOut.canvas = <<w, h>>
        /\ nOut.offset_x = (w - nOut.new_w) \div 2
        /\ nOut.offset_y = h - nOut.new_h
        /\ nOut.offset_x >= 0 /\ nOut.offset_x + nOut.new_w <= w
        /\ nOut.offset_y >= 0 /\ nOut.offset_y + nOut.new_h = h

\* C5: a cutout whose pixels are all fully transparent makes process_sprite
\* return the skipped signal, produce no canvas and leave the source file
\* as it was.
C5_EmptyCutoutIsSkipped ==
  (nOut.ret # "none" /\ nIn.cutout.box = None) =>
    /\ nOut.ret \in {"False", "EMPTY"}
    /\ nOut.canvas = None
    /\ ~nOut.saved

----------------------------------------------------------------------------
(* Recolorizer: claims *)

\* the pixel the last pass read and the pixel it wrote
PassIn == rcPixels[Len(rcPixels) - 1]

PassOut == rcPixels[Len(rcPixels)]

\* the hue is below 170 or above 260 degrees, or the saturation below 0.15
ExactlyOutside(px) ==
  LET h  == HueDegrees(px[1], px[2], px[3])
      st == Saturation(px[1], px[2], px[3])
  IN  \/ h[1] < 170 * h[2]
      \/ h[1] > 260 * h[2]
      \/ 100 * st[1] < 15 * st[2]

C9_SecondPassIsIdentity ==
  \A i \in 2..(Len(rcPixels) - 1) : rcPixels[i + 1] = rcPixels[i]

\* C9 witness: the first pass recoloured the pixel and a second pass ran
C9_Witness ==
  /\ Len(rcPixels) >= 3
  /\ rcPixels[2] # rcPixels[1]
  /\ rcPixels[3] = rcPixels[2]

----------------------------------------------------------------------------
(* Sheet assembler: claims *)

\* the row order and the grid the claims speak of
ClaimRowOrder == <<"front", "left", "right", "back">>

ClaimColumns(kind) == IF kind = "char" THEN 3 ELSE 2

\* the subjects a script has visited and that have at least one frame file
VisitedWithFrames ==
  {k \in DOMAIN report : FramePaths(k[1], k[2]) \cap DOMAIN files # {}}

\* the slot of a sheet that belongs to frame file p
SlotRow(p) == CHOOSE r \in 0..3 : ClaimRowOrder[r + 1] = p[3]

SlotIsTransparent(sheet, kind, p) ==
  LET sw == sheet.w \div ClaimColumns(kind)
      sh == sheet.h \div 4
  IN  \A x \in 0..(sw - 1), y \in 0..(sh - 1) :
        CanvasPixel(sheet, p[4] * sw + x, SlotRow(p) * sh + y)[4] = 0

\* C1: for every subject with frame files, whatever subset of them is absent
\* (front_0 included), the assembler does not skip the subject, writes a
\* sheet, reports exactly the number of absent frame files as missing, and
\* every slot of an absent frame file is fully transparent.
C1_NeverSkipsCountsMissing ==
  \A k \in VisitedWithFrames :
    /\ report[k].status # "SKIP"
    /\ k \in DOMAIN sheets
    /\ report[k].missing = Cardinality(AbsentOf(k[1], k[2]))
    /\ \A p \in AbsentOf(k[1], k[2]) : SlotIsTransparent(sheets[k], k[1], p)

AllFramesUsual(k) ==
  /\ AbsentOf(k[1], k[2]) = {}
  /\ \A p \in FramePaths(k[1], k[2]) : <<files[p].w, files[p].h>> = UsualSize(k[1])

\* C2: with all 12 frame files of a character present at 48x64, the sheet is
\* 144x256 and the 48x64 block at (c*48, r*64) equals the frame file of
\* (direction r, frame c) on all four channels, for every pixel.
C2_BlocksEqualFrames ==
  \A k \in VisitedWithFrames :
    (k[1] = "char" /\ AllFramesUsual(k)) =>
      /\ k \in DOMAIN sheets
      /\ <<sheets[k].w, sheets[k].h>> = <<144, 256>>
      /\ \A r \in 0..3, c \in 0..2 :
           \A x \in 0..47, y \in 0..63 :
             CanvasPixel(sheets[k], c * 48 + x, r * 64 + y) =
               GetPixel(files[FramePath("char", k[2], ClaimRowOrder[r + 1], c)], x, y)

SlotSizeUsed(k) ==
  IF report[k].by = "rebuild_sheets" THEN <<48, 64>>
  ELSE LET f == files[FramePath(k[1], k[2], "front", 0)] IN <<f.w, f.h>>

C10_RowsFollowDirectionOrder ==
  \A k \in DOMAIN sheets :
    LET fs == <<sheets[k].w \div ClaimColumns(k[1]), sheets[k].h \div 4>>
    IN  \A r \in 0..3, c \in 0..(ClaimColumns(k[1]) - 1) :
          LET p == FramePath(k[1], k[2], ClaimRowOrder[r + 1], c)
          IN  Exists(p) =>
                LET src == Resize(files[p], fs[1], fs[2])
                IN  \A x \in 0..(fs[1] - 1), y \in 0..(fs[2] - 1) :
                      GetPixel(src, x, y)[4] = 255 =>
                        CanvasPixel(sheets[k], c * fs[1] + x, r * fs[2] + y) =
                          GetPixel(src, x, y)

\* C10 witness: a sheet written by rebuild_sheets with a frame in each of its 12 slots
C10_Witness ==
  \E k \in DOMAIN sheets :
    /\ report[k].missing = 0
    /\ report[k].by = "rebuild_sheets"
    /\ Len(sheets[k].layers) = 12

----------------------------------------------------------------------------
(* Batch runs: claims *)

\* a backup that exists is left as it is by every run
BackupNeverOverwritten ==
  [][\A f \in DOMAIN backup : backup[f] # Absent => backup'[f] = backup[f]]_vars

\* a backup holds what its file held before any script wrote it
BackupIsPristine ==
  \A f \in DOMAIN backup : backup[f] # Absent => backup[f] = pristine[f]

\* C6: after any sequence of runs of the scripts, a backup that exists is
\* never overwritten and holds the true original content of its file, the
\* content the file had before any script modified it.
C6_BackupKeepsTrueOriginal == BackupNeverOverwritten /\ []BackupIsPristine

\* the items of the last run: the files of the directory its loops are over
ItemsOf(script) ==
  IF script = "process_building_sprites" THEN Range(BuildingItems)
  ELSE IF script = "recolor_sprites" THEN Range(FrameItems("char", <<"blue">>))
  ELSE IF script = "build_sprite_sheets"
       THEN {f \in DiskFiles : f[1] # "building" /\ disk[<<f[1], f[2], 0>>] # Absent}
  ELSE DiskFiles

\* C7: in every batch script a failure on one item is caught for that item
\* alone: no exception leaves the batch and every item after the failing one
\* is still processed.
C7_FailureStaysWithItsItem ==
  last.script # "none" =>
    /\ ~last.raised
    /\ \A f \in ItemsOf(last.script) : disk[f] # Absent => f \in last.seen

----------------------------------------------------------------------------
(* Pixelizer: claims *)

\* floor(side * f) in exact arithmetic, f the fraction the factor denotes
ExactFloor(side, factor) == (side * factor[1]) \div factor[2]

----------------------------------------------------------------------------
(* Normalizer batch: claims *)

\* C12: in a run of process_all_sprites, an item whose processing raised an
\* exception has the same file content after the run as it had before the
\* run, be it a character, an animal or a building, a building with a backup
\* and a normalized file included.
C12_FailedItemKeepsContent ==
  [][(runs' = runs + 1 /\ last'.script = "process_all_sprites") =>
       \A f \in last'.caught : disk'[f] = disk[f]]_vars

====
